---- MODULE Spec2Model ----
(***************************************************************************)
(* Model of build_lua.py: the module-level start-up (import of log_config, *)
(* platform check, logging configuration) followed by main(), a linear     *)
(* pipeline of filesystem and child-process operations.                    *)
(*                                                                         *)
(* A file name is the tuple of its dot-separated components, so that a     *)
(* glob pattern is decided by what it matches: <<"lua","exe">> is lua.exe  *)
(* and <<"README">> is a name without a dot.  A directory tree is a record *)
(* [exists, dirs, files]: whether the directory is there, the names of its *)
(* subdirectories and its files as <<subdirectory, name>> pairs ("." is    *)
(* the tree's own top level).                                              *)
(***************************************************************************)
EXTENDS Integers, Sequences, FiniteSets, TLC

VARIABLES
    logs,       \* the logs directory beside the package: "absent", "dir", "dir_with_log"
    archive,    \* lua-<version>.tar.gz in the working directory
    build,      \* lua-<version>/, the extracted source tree (build_directory)
    dist,       \* dist/lua-<version>/ (distribution_directory)
    install,    \* %APPDATA%/Lua (install_directory)
    pc,         \* the statement the current run is at
    run,        \* number of runs started so far
    trace,      \* stages the current run has entered, in order
    failure,    \* the error that ended the current run, "none" otherwise
    exitCode,   \* the process exit status of the current run, -1 while running
    probes,     \* is_executable calls of the current run: [exe, outcome, result]
    fetches,    \* fetches[r]: urlretrieve calls issued by run r
    makeRuns,   \* exit statuses of the make child processes of the current run
    atStart     \* the filesystem as the current run found it

vars == <<logs, archive, build, dist, install, pc, run, trace, failure,
          exitCode, probes, fetches, makeRuns, atStart>>

fsvars == <<logs, archive, build, dist, install>>

\* Number of consecutive runs of the script that are explored.
MaxRuns == 2

----------------------------------------------------------------------------
(* File names *)

LuaExe     == <<"lua", "exe">>
LuaDll     == <<"lua54", "dll">>
LuaC       == <<"lua", "c">>
ReadmeHtml == <<"readme", "html">>
ReadmeBare == <<"README">>
Sentinel   == <<"sentinel", "txt">>

\* The fixed header list of create_distribution, in copy order.
HeaderFiles ==
    << <<"luaconf", "h">>, <<"lua", "h">>, <<"lualib", "h">>,
       <<"lauxlib", "h">>, <<"lua", "hpp">> >>

Headers == {HeaderFiles[i] : i \in 1..Len(HeaderFiles)}

\* Entries of the working directory, by name.
ArchiveName == <<"lua-5", "4", "3", "tar", "gz">>
BuildName   == <<"lua-5", "4", "3">>
DistName    == <<"dist">>

\* The first components, among the names above, that begin with "lua-".
LuaDashNames == {"lua-5"}

\* pathlib glob of one pattern against one file name.  "*.*" needs a literal
\* dot in the name; "*.exe" and "*.dll" need that last component.
GlobMatch(pattern, name) ==
    CASE pattern = "*.*"   -> Len(name) >= 2
      [] pattern = "*.exe" -> Len(name) >= 2 /\ name[Len(name)] = "exe"
      [] pattern = "*.dll" -> Len(name) >= 2 /\ name[Len(name)] = "dll"
      [] pattern = "lua-*" -> name[1] \in LuaDashNames
      [] OTHER             -> FALSE

----------------------------------------------------------------------------
(* Directory trees *)

NoTree == [exists |-> FALSE, dirs |-> {}, files |-> {}]

FilesIn(tree, dir) == {f[2] : f \in {g \in tree.files : g[1] = dir}}

\* What an archive can hold: doc files with and without a dot in the name,
\* and src with all five headers or with one of them missing.
DocSets == {{ReadmeHtml}, {ReadmeHtml, ReadmeBare}}

SrcSets == {Headers \cup {LuaC}} \cup {(Headers \ {h}) \cup {LuaC} : h \in Headers}

SourceTree(doc, src) ==
    [exists |-> TRUE, dirs |-> {"doc", "src"},
     files  |-> {<<"doc", n>> : n \in doc} \cup {<<"src", n>> : n \in src}]

\* An archive file: absent, unreadable (truncated or not a tar.gz), or
\* holding a source tree.
NoArchive      == [exists |-> FALSE, readable |-> FALSE, tree |-> NoTree]
CorruptArchive == [exists |-> TRUE, readable |-> FALSE, tree |-> NoTree]
GoodArchives ==
    {[exists |-> TRUE, readable |-> TRUE, tree |-> SourceTree(d, s)] :
        d \in DocSets, s \in SrcSets}

\* A build tree left behind by an earlier run.
StaleBuild == SourceTree({ReadmeHtml}, Headers \cup {LuaC, LuaExe})

\* A distribution and an installation left behind by an earlier version.
StaleDist ==
    [exists |-> TRUE, dirs |-> {"doc", "bin", "include", "old"},
     files  |-> {<<"bin", LuaExe>>, <<"old", Sentinel>>}]

OldInstall ==
    [exists |-> TRUE, dirs |-> {"bin"},
     files  |-> {<<"bin", LuaExe>>, <<".", Sentinel>>}]

\* The part of a tree that a recursive copy or removal which fails part way
\* has handled: some but not all of its top-level entries.
TopEntries(tree) == tree.dirs \cup {"."}

Restrict(tree, keep) ==
    [exists |-> TRUE, dirs |-> tree.dirs \cap keep,
     files  |-> {f \in tree.files : f[1] \in keep}]

PartialTrees(tree) ==
    {Restrict(tree, keep) : keep \in (SUBSET TopEntries(tree)) \ {TopEntries(tree)}}

----------------------------------------------------------------------------
(* Stages *)

StageOrder ==
    <<"CheckDeps", "Acquire", "Build", "VerifyBuild", "Package",
      "VerifyPackage", "Install", "Done">>

Enter(stage) == IF trace # <<>> /\ trace[Len(trace)] = stage
                THEN trace
                ELSE Append(trace, stage)

\* An uncaught exception or a SystemExit carrying a message: exit status 1.
Fail(why) ==
    /\ pc' = "Failed"
    /\ failure' = why
    /\ exitCode' = 1

Goto(next) ==
    /\ pc' = next
    /\ UNCHANGED <<failure, exitCode>>

----------------------------------------------------------------------------
(* The presence probe *)

\* What launching an executable with no arguments can come to.
LaunchOutcomes == {"not_found", "exit_zero", "exit_nonzero", "permission_denied"}

\* is_executable: check_call raises FileNotFoundError (caught: False),
\* CalledProcessError (caught: True), returns (True), or raises another
\* OSError, which no except clause catches.
is_executable(outcome) ==
    CASE outcome = "not_found"    -> "False"
      [] outcome = "exit_nonzero" -> "True"
      [] outcome = "exit_zero"    -> "True"
      [] OTHER                    -> "raises"

Probe(exe, outcome) ==
    [exe |-> exe, outcome |-> outcome, result |-> is_executable(outcome)]

\* Launching <tree>/<dir>/lua: not found unless lua.exe is there.
LuaOutcomes(tree, dir) ==
    IF tree.exists /\ LuaExe \in FilesIn(tree, dir)
    THEN LaunchOutcomes \ {"not_found"}
    ELSE {"not_found"}

----------------------------------------------------------------------------
(* Start-up: the module-level code that runs before main() *)

Snapshot ==
    [logs |-> logs, archive |-> archive, build |-> build, dist |-> dist,
     install |-> install]

\* The interpreter is started on build_lua.py.
StartRun ==
    /\ pc \in {"Idle", "Done", "Failed"}
    /\ run < MaxRuns
    /\ run' = run + 1
    /\ pc' = "ImportLogConfig"
    /\ trace' = <<>>
    /\ failure' = "none"
    /\ exitCode' = -1
    /\ probes' = <<>>
    /\ fetches' = Append(fetches, 0)
    /\ makeRuns' = <<>>
    /\ atStart' = Snapshot
    /\ UNCHANGED fsvars

\* from log_config import LOGGING_CONFIG: logs_path.mkdir(exist_ok=True).
ImportLogConfig ==
    /\ pc = "ImportLogConfig"
    /\ logs' = IF logs = "absent" THEN "dir" ELSE logs
    /\ Goto("PlatformCheck")
    /\ UNCHANGED <<archive, build, dist, install, run, trace, probes, fetches,
                   makeRuns, atStart>>

Platforms == {"Windows", "Linux", "Darwin"}

\* The platform check of the Config block.
PlatformCheck ==
    /\ pc = "PlatformCheck"
    /\ \E system \in Platforms :
          IF system = "Windows"
          THEN Goto("ConfigureLogging")
          ELSE Fail("UnsupportedPlatform")
    /\ UNCHANGED <<fsvars, run, trace, probes, fetches, makeRuns, atStart>>

\* logging.config.dictConfig: the file handler opens the log file; then
\* main() is called.
ConfigureLogging ==
    /\ pc = "ConfigureLogging"
    /\ logs' = "dir_with_log"
    /\ Goto("CheckDependencies")
    /\ UNCHANGED <<archive, build, dist, install, run, trace, probes, fetches,
                   makeRuns, atStart>>

----------------------------------------------------------------------------
(* main(): Dependency Check and Source Acquisition *)

\* A check_dependencies that computes gcc_installed and never raises on it.
CheckDependencies_NoRaise ==
    /\ pc = "CheckDependencies"
    /\ trace' = Enter("CheckDeps")
    /\ \E outcome \in LaunchOutcomes :
          /\ probes' = Append(probes, Probe("gcc", outcome))
          /\ IF is_executable(outcome) = "raises"
             THEN Fail("UncaughtOSError")
             ELSE Goto("CleanLuaSource")
    /\ UNCHANGED <<fsvars, run, fetches, makeRuns, atStart>>

\* check_dependencies: SystemExit when is_executable(GCC) is False.
CheckDependencies ==
    /\ pc = "CheckDependencies"
    /\ trace' = Enter("CheckDeps")
    /\ \E outcome \in LaunchOutcomes :
          /\ probes' = Append(probes, Probe("gcc", outcome))
          /\ CASE is_executable(outcome) = "True"  -> Goto("CleanLuaSource")
               [] is_executable(outcome) = "False" -> Fail("MissingDependency")
               [] OTHER                            -> Fail("UncaughtOSError")
    /\ UNCHANGED <<fsvars, run, fetches, makeRuns, atStart>>

\* The entries of the working directory that this model tracks.
CwdEntries ==
    (IF archive.exists THEN {[name |-> ArchiveName, isDir |-> FALSE]} ELSE {})
    \cup (IF build.exists THEN {[name |-> BuildName, isDir |-> TRUE]} ELSE {})
    \cup (IF dist.exists THEN {[name |-> DistName, isDir |-> TRUE]} ELSE {})

\* A clean_lua_source without the is_dir() test.
CleanTargets_AnyMatch ==
    {e.name : e \in {d \in CwdEntries : GlobMatch("lua-*", d.name)}}

\* What clean_lua_source removes: glob 'lua-*', directories only.
CleanTargets ==
    {e.name : e \in {d \in CwdEntries : GlobMatch("lua-*", d.name) /\ d.isDir}}

CleanLuaSource ==
    /\ pc = "CleanLuaSource"
    /\ trace' = Enter("Acquire")
    /\ build' = IF BuildName \in CleanTargets THEN NoTree ELSE build
    /\ archive' = IF ArchiveName \in CleanTargets THEN NoArchive ELSE archive
    /\ dist' = IF DistName \in CleanTargets THEN NoTree ELSE dist
    /\ Goto("DownloadLua")
    /\ UNCHANGED <<logs, install, run, probes, fetches, makeRuns, atStart>>

\* What urlretrieve leaves at download_path: the archive the server sent, or,
\* when the transfer fails, nothing or a truncated file.
FetchResults == GoodArchives \cup {NoArchive, CorruptArchive}

\* download_lua fetches only when download_path does not exist.
NeedsFetch == ~archive.exists

DownloadLua ==
    /\ pc = "DownloadLua"
    /\ trace' = Enter("Acquire")
    /\ IF NeedsFetch
       THEN /\ fetches' = [fetches EXCEPT ![run] = @ + 1]
            /\ \E got \in FetchResults :
                  /\ archive' = got
                  /\ IF got.exists /\ got.readable
                     THEN Goto("ExtractLua")
                     ELSE Fail("AcquisitionFailure")
       ELSE /\ UNCHANGED <<fetches, archive>>
            /\ Goto("ExtractLua")
    /\ UNCHANGED <<logs, build, dist, install, run, probes, makeRuns, atStart>>

\* extract_lua: shutil.unpack_archive into the working directory.
ExtractLua ==
    /\ pc = "ExtractLua"
    /\ trace' = Enter("Acquire")
    /\ IF archive.readable
       THEN /\ build' = archive.tree
            /\ Goto("BuildLua")
       ELSE /\ UNCHANGED build
            /\ Fail("AcquisitionFailure")
    /\ UNCHANGED <<logs, archive, dist, install, run, probes, fetches, makeRuns,
                   atStart>>

----------------------------------------------------------------------------
(* main(): Compilation and Build Verification *)

\* Exit statuses of the make child process, and what it leaves in src.
MakeExitCodes == {0, 2}
MakeProducts  == {{}, {LuaExe}, {LuaExe, LuaDll}}

\* A build_lua that never looks at the return code.
BuildFailed_Ignored(return_code) == FALSE

\* build_lua raises SystemExit when the child's return code is not 0.
BuildFailed(return_code) == return_code # 0

BuildLua ==
    /\ pc = "BuildLua"
    /\ trace' = Enter("Build")
    /\ \/ \E return_code \in MakeExitCodes, made \in MakeProducts :
             /\ makeRuns' = Append(makeRuns, return_code)
             /\ build' = [build EXCEPT !.files = @ \cup {<<"src", n>> : n \in made}]
             /\ IF BuildFailed(return_code)
                THEN Fail("BuildFailure")
                ELSE Goto("CheckLuaBuild")
       \/ \* mingw32-make cannot be launched: Popen raises
          /\ UNCHANGED <<makeRuns, build>>
          /\ Fail("UncaughtOSError")
    /\ UNCHANGED <<logs, archive, dist, install, run, probes, fetches, atStart>>

\* check_lua on lua-<version>/src/lua.
CheckLuaBuild ==
    /\ pc = "CheckLuaBuild"
    /\ trace' = Enter("VerifyBuild")
    /\ \E outcome \in LuaOutcomes(build, "src") :
          /\ probes' = Append(probes, Probe("build_lua", outcome))
          /\ CASE is_executable(outcome) = "True"  -> Goto("CleanDistribution")
               [] is_executable(outcome) = "False" -> Fail("VerificationFailure")
               [] OTHER                            -> Fail("UncaughtOSError")
    /\ UNCHANGED <<fsvars, run, fetches, makeRuns, atStart>>

----------------------------------------------------------------------------
(* main(): Distribution Packaging and Distribution Verification *)

\* A clean_distribution that is handed install_directory as well.
CleanDistribution_AlsoInstall ==
    /\ pc = "CleanDistribution"
    /\ trace' = Enter("Package")
    /\ dist' = IF dist.exists THEN NoTree ELSE dist
    /\ install' = IF install.exists THEN NoTree ELSE install
    /\ Goto("CreateDistribution")
    /\ UNCHANGED <<logs, archive, build, run, probes, fetches, makeRuns, atStart>>

\* clean_distribution: rmtree when the directory exists.
CleanDistribution ==
    /\ pc = "CleanDistribution"
    /\ trace' = Enter("Package")
    /\ dist' = IF dist.exists THEN NoTree ELSE dist
    /\ Goto("CreateDistribution")
    /\ UNCHANGED <<logs, archive, build, install, run, probes, fetches,
                   makeRuns, atStart>>

DistSubdirs == <<"doc", "bin", "include">>

\* The subdirectories mkdir(parents=True, exist_ok=False) gets to create:
\* those before the first one that is already there.
CreatedSubdirs(tree) ==
    {DistSubdirs[i] : i \in {k \in 1..Len(DistSubdirs) :
                               \A j \in 1..k : DistSubdirs[j] \notin tree.dirs}}

\* The doc files copied: (build_directory / 'doc').glob('*.*').
CopiedDocs(tree) == {n \in FilesIn(tree, "doc") : GlobMatch("*.*", n)}

\* The binaries copied: src globbed with '*.exe' and with '*.dll'.
CopiedBins(tree) ==
    {n \in FilesIn(tree, "src") : GlobMatch("*.exe", n) \/ GlobMatch("*.dll", n)}

\* The headers copied: the fixed list in order, up to the first one that
\* shutil.copy2 does not find.
CopiedHeaders(tree) ==
    {HeaderFiles[i] : i \in {k \in 1..Len(HeaderFiles) :
                               \A j \in 1..k : HeaderFiles[j] \in FilesIn(tree, "src")}}

\* A header loop that skips a header it does not find.
HeadersCopied_SkipMissing(tree) == TRUE

\* Whether every copy of the header loop finds its source file.
HeadersCopied(tree) == CopiedHeaders(tree) = Headers

CreateDistribution ==
    /\ pc = "CreateDistribution"
    /\ trace' = Enter("Package")
    /\ IF CreatedSubdirs(dist) # {"doc", "bin", "include"}
       THEN \* FileExistsError from mkdir
            /\ dist' = [dist EXCEPT !.exists = TRUE,
                                    !.dirs = @ \cup CreatedSubdirs(dist)]
            /\ Fail("PackagingFailure")
       ELSE /\ dist' =
                 [exists |-> TRUE,
                  dirs   |-> dist.dirs \cup {"doc", "bin", "include"},
                  files  |-> dist.files
                             \cup {<<"doc", n>> : n \in CopiedDocs(build)}
                             \cup {<<"bin", n>> : n \in CopiedBins(build)}
                             \cup {<<"include", n>> : n \in CopiedHeaders(build)}]
            /\ IF HeadersCopied(build)
               THEN Goto("CheckLuaDist")
               ELSE Fail("PackagingFailure")
    /\ UNCHANGED <<logs, archive, build, install, run, probes, fetches,
                   makeRuns, atStart>>

\* check_lua on dist/lua-<version>/bin/lua.
CheckLuaDist ==
    /\ pc = "CheckLuaDist"
    /\ trace' = Enter("VerifyPackage")
    /\ \E outcome \in LuaOutcomes(dist, "bin") :
          /\ probes' = Append(probes, Probe("dist_lua", outcome))
          /\ CASE is_executable(outcome) = "True"  -> Goto("InstallLua")
               [] is_executable(outcome) = "False" -> Fail("VerificationFailure")
               [] OTHER                            -> Fail("UncaughtOSError")
    /\ UNCHANGED <<fsvars, run, fetches, makeRuns, atStart>>

----------------------------------------------------------------------------
(* main(): Installation *)

\* An install_lua that copies over the old directory instead of removing it.
Installed_Merged(old, new) ==
    [exists |-> TRUE, dirs |-> old.dirs \cup new.dirs,
     files  |-> old.files \cup new.files]

\* The install directory after rmtree (when it existed) and copytree have
\* both completed: a copy of the distribution tree.
Installed(old, new) == new

\* install_lua: rmtree the install directory when it exists, then copytree.
\* Either call can raise part way (a file in use, a full disk), leaving what
\* it had handled so far.
InstallLua ==
    /\ pc = "InstallLua"
    /\ trace' = Enter("Install")
    /\ \/ \* both calls complete
          /\ install' = Installed(install, dist)
          /\ Goto("Return")
       \/ \* rmtree raises: some of the old entries are gone
          /\ install.exists
          /\ \E left \in PartialTrees(install) \cup {install} : install' = left
          /\ Fail("InstallFailure")
       \/ \* copytree raises: the old directory is gone, the new one incomplete
          /\ \E copied \in PartialTrees(dist) \cup {NoTree} : install' = copied
          /\ Fail("InstallFailure")
    /\ UNCHANGED <<logs, archive, build, dist, run, probes, fetches, makeRuns,
                   atStart>>

\* return 0, and raise SystemExit(main()).
Return ==
    /\ pc = "Return"
    /\ trace' = Enter("Done")
    /\ pc' = "Done"
    /\ exitCode' = 0
    /\ UNCHANGED <<fsvars, run, failure, probes, fetches, makeRuns, atStart>>

----------------------------------------------------------------------------
(* The specification *)

Init ==
    /\ logs \in {"absent", "dir_with_log"}
    /\ archive \in {NoArchive, CorruptArchive} \cup GoodArchives
    /\ build \in {NoTree, StaleBuild}
    /\ dist \in {NoTree, StaleDist}
    /\ install \in {NoTree, OldInstall}
    /\ pc = "Idle"
    /\ run = 0
    /\ trace = <<>>
    /\ failure = "none"
    /\ exitCode = -1
    /\ probes = <<>>
    /\ fetches = <<>>
    /\ makeRuns = <<>>
    /\ atStart = Snapshot

Next ==
    \/ StartRun
    \/ ImportLogConfig
    \/ PlatformCheck
    \/ ConfigureLogging
    \/ CheckDependencies
    \/ CleanLuaSource
    \/ DownloadLua
    \/ ExtractLua
    \/ BuildLua
    \/ CheckLuaBuild
    \/ CleanDistribution
    \/ CreateDistribution
    \/ CheckLuaDist
    \/ InstallLua
    \/ Return

Spec == Init /\ [][Next]_vars

----------------------------------------------------------------------------
(* Properties *)

IsPrefix(s, t) == Len(s) <= Len(t) /\ \A i \in 1..Len(s) : s[i] = t[i]

Entered(stage) == \E i \in 1..Len(trace) : trace[i] = stage

LastStage == IF trace = <<>> THEN "none" ELSE trace[Len(trace)]

C1_Inv ==
    /\ IsPrefix(trace, StageOrder)
    /\ (pc = "Failed") = (failure # "none")
    /\ pc = "Failed" => exitCode = 1 /\ ~Entered("Done")
    /\ (\E i \in 1..Len(makeRuns) : makeRuns[i] # 0) =>
          /\ pc = "Failed"
          /\ failure = "BuildFailure"
          /\ trace = <<"CheckDeps", "Acquire", "Build">>
    /\ Len(makeRuns) <= 1
    /\ exitCode = 0 <=> pc = "Done"
    /\ pc = "Done" => trace = StageOrder
    /\ Entered("Done") => Entered("Install") /\ install = dist

C1_Step ==
    trace' # trace =>
       \/ trace' = <<>> /\ run' = run + 1
       \/ /\ pc \notin {"Failed", "Done"}
          /\ failure = "none"
          /\ Len(trace) < Len(StageOrder)
          /\ trace' = Append(trace, StageOrder[Len(trace) + 1])

\* C1: the stages of a run execute in the fixed order CheckDeps, Acquire,
\* Build, VerifyBuild, Package, VerifyPackage, Install, Done; a stage begins
\* only while no failure has occurred and directly after its predecessor, no
\* stage is entered twice, a failed run (in particular a non-zero exit of
\* make) enters no further stage and exits non-zero, and the exit status is 0
\* only when Install has completed.
C1_StageOrder == [](C1_Inv) /\ [][C1_Step]_vars

C1_Witness ==
    /\ pc = "Failed"
    /\ makeRuns = <<2>>
    /\ trace = <<"CheckDeps", "Acquire", "Build">>
    /\ exitCode = 1

\* C2: in every reachable state the install directory holds either its
\* complete pre-run contents or the complete distribution tree.
C2_AllOrNothing ==
    \/ install = atStart.install
    \/ dist.exists /\ install = dist

\* C3: when launching gcc finds no executable, the run ends in the Dependency
\* Check stage with a fatal error and exit status 1, and nothing has been
\* done: the source directory and the archive are as the run found them, no
\* fetch was issued, no make process was started, and the distribution and
\* install directories are unchanged.
C3_MissingCompilerFailsFast ==
    \A i \in 1..Len(probes) :
       (probes[i].exe = "gcc" /\ probes[i].outcome = "not_found") =>
          /\ pc = "Failed"
          /\ failure = "MissingDependency"
          /\ exitCode = 1
          /\ trace = <<"CheckDeps">>
          /\ build = atStart.build
          /\ archive = atStart.archive
          /\ fetches[run] = 0
          /\ makeRuns = <<>>
          /\ dist = atStart.dist
          /\ install = atStart.install

C3_Witness ==
    /\ pc = "Failed"
    /\ failure = "MissingDependency"
    /\ probes = <<Probe("gcc", "not_found")>>
    /\ build = StaleBuild
    /\ ~archive.exists
    /\ install = OldInstall

\* C4: for every launch outcome the presence probe returns a boolean, False
\* when the executable is not found and True for every other outcome.
C4_ProbeDecidesPresence ==
    \A i \in 1..Len(probes) :
       probes[i].result = IF probes[i].outcome = "not_found" THEN "False" ELSE "True"

\* C5: a run that finds the archive file present issues no fetch and leaves
\* the archive as it found it (clean_lua_source does not delete it), and no
\* run fetches more than once; so a run that follows one whose download left
\* the archive in place performs zero fetches.
C5_NoRefetch ==
    run >= 1 =>
       /\ fetches[run] <= 1
       /\ atStart.archive.exists => fetches[run] = 0 /\ archive = atStart.archive
       /\ (fetches[run] = 0 /\ Entered("Acquire") /\ pc # "CleanLuaSource"
              /\ pc # "DownloadLua") => atStart.archive.exists

C5_Witness ==
    /\ run = 2
    /\ fetches = <<1, 0>>
    /\ pc = "ExtractLua"
    /\ archive.exists

\* What the spec's packaging rules put in the distribution directory for a
\* build tree: every file of doc, the *.exe and *.dll files of src, and the
\* five headers, in the three subdirectories doc, bin and include.
PackagedPerRules(tree) ==
    [exists |-> TRUE,
     dirs   |-> {"doc", "bin", "include"},
     files  |-> {<<"doc", n>> : n \in FilesIn(tree, "doc")}
                \cup {<<"bin", n>> : n \in {m \in FilesIn(tree, "src") :
                                             m[Len(m)] \in {"exe", "dll"}}}
                \cup {<<"include", n>> : n \in Headers}]

\* C6: whenever Distribution Packaging has succeeded, the distribution
\* directory holds exactly doc, bin and include with exactly the doc files,
\* the *.exe and *.dll files of src and the five headers.
C6_PackagingExact ==
    (pc = "CheckLuaDist") => dist = PackagedPerRules(build)

\* C7: once Distribution Packaging has run on a build tree that lacks one of
\* the five headers, the run has failed fatally in Package (it never reaches
\* VerifyPackage, Install or Done), and a run past Package, in particular a
\* successful one, has all five headers in the distribution include directory.
C7_MissingHeaderIsFatal ==
    /\ (/\ Entered("Package")
        /\ pc \notin {"CleanDistribution", "CreateDistribution"}
        /\ ~(Headers \subseteq FilesIn(build, "src"))) =>
          /\ pc = "Failed"
          /\ failure = "PackagingFailure"
          /\ exitCode = 1
          /\ LastStage = "Package"
    /\ (Entered("VerifyPackage") \/ pc \in {"CheckLuaDist", "Done"}) =>
          FilesIn(dist, "include") = Headers

C7_Witness ==
    /\ pc = "Failed"
    /\ failure = "PackagingFailure"
    /\ LastStage = "Package"
    /\ Cardinality(Headers \cap FilesIn(build, "src")) = 4
    /\ Cardinality(FilesIn(dist, "include")) < 5

\* C8: after install_lua has succeeded the install directory is a copy of
\* the distribution directory: the same subdirectories and the same files,
\* so nothing that was installed before survives unless the distribution
\* holds it too.
C8_InstallReplaces ==
    pc \in {"Return", "Done"} =>
       /\ dist.exists
       /\ install = dist
       /\ \A f \in atStart.install.files : f \in install.files => f \in dist.files

C8_Witness ==
    /\ pc = "Done"
    /\ atStart.install = OldInstall
    /\ <<".", Sentinel>> \notin install.files
    /\ install = dist

\* C9: when the run has ended with the unsupported-platform error, nothing
\* has been created: the logs directory and every other directory and file
\* are as the run found them, no process was started, no fetch was issued.
C9_NoSideEffectsBeforePlatformError ==
    failure = "UnsupportedPlatform" =>
       /\ Snapshot = atStart
       /\ probes = <<>>
       /\ makeRuns = <<>>
       /\ fetches[run] = 0

\* C10: as long as a run has not entered the Install stage, and so at the
\* end of every run that fails in an earlier stage, the install directory is
\* as the run found it.
C10_InstallUntouchedBeforeInstall ==
    ~Entered("Install") => install = atStart.install

C10_Witness ==
    /\ pc = "Failed"
    /\ LastStage = "VerifyPackage"
    /\ dist # atStart.dist
    /\ install = OldInstall

====
